---- MODULE Spec2Model ----
(***************************************************************************)
(* A model of EG4InverterAPI (src/src/eg4_inverter_api/client.py): the     *)
(* session-cookie login, the authenticated request path with its single    *)
(* re-login and retry, the three data calls, the device selection and      *)
(* close.  Every coroutine is cut at the awaits where it waits for the     *)
(* network; what runs between two such awaits is one atomic step.          *)
(*                                                                         *)
(* JSON scalars whose type the code tests (the "success" field) are        *)
(* written as their JSON text: "true", "false", "1".  A JSON object is a   *)
(* record and an absent key is an absent field.  An inverter object, the   *)
(* one object whose key order the code can show, is the sequence of its    *)
(* <<key, value>> pairs in the order of the text.                          *)
(***************************************************************************)
EXTENDS Integers, Sequences, FiniteSets, TLC

\* ------------------------------------------------------------------ bounds
NumTasks == 2
MaxInverters == 2

\* ------------------------------------------------------- program constants
HTTP_OK == 200
HTTP_UNAUTHORIZED == 401

DEFAULT_BASE_URL == "https://monitor.eg4electronics.com"
LOGIN_ENDPOINT == "/WManage/web/login"
INVERTER_RUNTIME_ENDPOINT == "/<runtime endpoint>"
INVERTER_ENERGY_ENDPOINT == "/<energy endpoint>"
INVERTER_BATTERY_ENDPOINT == "/<battery endpoint>"

login_url == DEFAULT_BASE_URL \o LOGIN_ENDPOINT
inverter_runtime_url == DEFAULT_BASE_URL \o INVERTER_RUNTIME_ENDPOINT
inverter_energy_url == DEFAULT_BASE_URL \o INVERTER_ENERGY_ENDPOINT
inverter_battery_url == DEFAULT_BASE_URL \o INVERTER_BATTERY_ENDPOINT

\* -------------------------------------------------------- Python fragments
None == "<None>"
\* str(v) inside an f-string
Str(v) == IF v = None THEN "None" ELSE v
\* dict.get(k, default)
Get(d, k, default) == IF k \in DOMAIN d THEN d[k] ELSE default
\* bool(v) of a token: None and "" are falsy
TokenTruthy(v) == v # None /\ v # ""
\* bool(v) of a JSON value given as its JSON text, for a text json.loads
\* accepts (a text it refuses, one with an int beyond the interpreter's digit
\* limit among them, is not an input) and as json.loads reads it: false, null,
\* the empty string, the empty array, the empty object and every number whose
\* value is zero are falsy
Char(s, i) == IF 1 <= i /\ i <= Len(s) THEN SubSeq(s, i, i) ELSE ""
DigitChars == {"0", "1", "2", "3", "4", "5", "6", "7", "8", "9"}
JsonWhitespace == {" ", "\t", "\n", "\r"}
\* the length of the run of digits of s that starts at position i
DigitsFrom(s, i) ==
    CHOOSE n \in 0..Len(s) :
        /\ Char(s, i + n) \notin DigitChars
        /\ \A j \in i..(i + n - 1) : Char(s, j) \in DigitChars
\* v without the whitespace json.loads skips before and after a value
Trimmed(v) ==
    LET first == CHOOSE i \in 1..(Len(v) + 1) :
                    /\ Char(v, i) \notin JsonWhitespace
                    /\ \A j \in 1..(i - 1) : Char(v, j) \in JsonWhitespace
        last == CHOOSE i \in 0..Len(v) :
                    /\ Char(v, i) \notin JsonWhitespace
                    /\ \A j \in (i + 1)..Len(v) : Char(v, j) \in JsonWhitespace
    IN  IF first <= last THEN SubSeq(v, first, last) ELSE ""
\* the text of an empty array or object: the brackets with only whitespace between
IsEmptyContainer(v, open, close) ==
    /\ Len(v) >= 2
    /\ Char(v, 1) = open
    /\ Char(v, Len(v)) = close
    /\ \A i \in 2..(Len(v) - 1) : Char(v, i) \in JsonWhitespace
DigitValue(c) ==
    CASE c = "0" -> 0 [] c = "1" -> 1 [] c = "2" -> 2 [] c = "3" -> 3 [] c = "4" -> 4
      [] c = "5" -> 5 [] c = "6" -> 6 [] c = "7" -> 7 [] c = "8" -> 8 [] c = "9" -> 9
\* the position of the first digit of s that is not 0, or Len(s) + 1
FirstNonZero(s) ==
    CHOOSE i \in 1..(Len(s) + 1) :
        /\ Char(s, i) # "0"
        /\ \A j \in 1..(i - 1) : Char(s, j) = "0"
\* the digits of a natural number without its leading zeros ("" for zero)
Significant(s) == SubSeq(s, FirstNonZero(s), Len(s))
\* the order of two natural numbers given by their significant digits, of
\* any length: -1 for a < b, 0 for a = b, 1 for a > b
CompareDigits(a, b) ==
    CHOOSE c \in {0 - 1, 0, 1} :
        IF Len(a) # Len(b)
        THEN c = (IF Len(a) < Len(b) THEN 0 - 1 ELSE 1)
        ELSE \E differ \in {{ i \in 1..Len(a) : Char(a, i) # Char(b, i) }} :
                \/ differ = {} /\ c = 0
                \/ \E i \in differ :
                    /\ \A j \in differ : i <= j
                    /\ c = (IF DigitValue(Char(a, i)) < DigitValue(Char(b, i))
                            THEN 0 - 1 ELSE 1)
\* the order of the natural number with digits a and the integer m
CompareWithInt(a, m) ==
    IF m < 0 THEN 1 ELSE CompareDigits(a, Significant(ToString(m)))
\* the significant digits of 2^-1075 = d.ddd... * 10^-324, half the smallest
\* positive float: float() rounds a decimal to the nearest float, ties to even
HalfMinSubnormalDigits ==
    "247032822920623272088284396434110686182529901307162382212792"
    \o "841250337753635104375932649918180817996189898282347722858865"
    \o "463328355177969898199387398005390939063150356595155702263922"
    \o "908583924491051844359318028499365361525003193704576782492193"
    \o "656236698636584807570015857692699037063119282795585513329278"
    \o "343384093519780155312465972635795746227664652728272200563740"
    \o "064854999770965994704540208281662262378573934507363390079677"
    \o "619305775067401763246736009689513405355374585166611342237666"
    \o "786041621596804619144672918403005300575308490487653917113865"
    \o "916462395249126236538818796362393732804238910186723484976682"
    \o "350898633885879256283027559956575244555072551893136908362547"
    \o "791869486679949683240497058210285131854513962138377228261454"
    \o "37693412532098591327667236328125"
\* a.aaa... <= b.bbb... for two digit strings read as decimal fractions
AtMost(a, b) ==
    LET Digit(s, i) == IF i <= Len(s) THEN DigitValue(Char(s, i)) ELSE 0
    IN  \E differ \in {{ i \in 1..(IF Len(a) > Len(b) THEN Len(a) ELSE Len(b)) :
                            Digit(a, i) # Digit(b, i) }} :
            \/ differ = {}
            \/ \E i \in differ :
                /\ \A j \in differ : i <= j
                /\ Digit(a, i) < Digit(b, i)
\* bool(json.loads(v)) is False for a number.  v is matched as a whole against
\* the number pattern of json.scanner,
\*     (-?(?:0|[1-9]\d*))(\.\d+)?([eE][-+]?\d+)?
\* and each part of the match is bound once, in the order the pattern reads
\* them.  Without fraction and exponent the number is an int, zero when its
\* digits are "0"; otherwise it is float(v), zero when every digit is 0 or
\* when the decimal is at most half the smallest positive float.  The
\* exponent is read whole, as digits of any length: k, the decimal exponent
\* of the first significant digit, is d - E or d + E for the exponent's
\* magnitude E, and its order with -324 is the order of E with d + 324 or
\* with -324 - d.
IsZeroNumber(v) ==
    \E start \in {IF Char(v, 1) = "-" THEN 2 ELSE 1} :
    \E intLen \in {IF Char(v, start) = "0" THEN 1 ELSE DigitsFrom(v, start)} :
    \E afterInt \in {start + intLen} :
    \E fracLen \in {IF Char(v, afterInt) = "."
                    THEN DigitsFrom(v, afterInt + 1) ELSE 0} :
    \E afterFrac \in {IF fracLen > 0 THEN afterInt + 1 + fracLen ELSE afterInt} :
    \E expStart \in {IF Char(v, afterFrac + 1) \in {"-", "+"}
                     THEN afterFrac + 2 ELSE afterFrac + 1} :
    \E expLen \in {IF Char(v, afterFrac) \in {"e", "E"}
                   THEN DigitsFrom(v, expStart) ELSE 0} :
    \E end \in {IF expLen > 0 THEN expStart + expLen ELSE afterFrac} :
        /\ intLen > 0
        /\ end = Len(v) + 1
        /\ \E digits \in {SubSeq(v, start, afterInt - 1)
                            \o SubSeq(v, afterInt + 1, afterInt + fracLen)} :
           \E first \in {FirstNonZero(digits)} :
           \E d \in {intLen - first} :
           \E E \in {IF expLen > 0
                     THEN Significant(SubSeq(v, expStart, end - 1)) ELSE ""} :
           \* the order of k with -324
           \E order \in {IF Char(v, afterFrac + 1) = "-"
                         THEN 0 - CompareWithInt(E, d + 324)
                         ELSE CompareWithInt(E, 0 - 324 - d)} :
               IF fracLen = 0 /\ expLen = 0
               THEN digits = "0"
               ELSE \/ first > Len(digits)
                    \/ order < 0
                    \/ /\ order = 0
                       /\ AtMost(SubSeq(digits, first, Len(digits)),
                                 HalfMinSubnormalDigits)
JsonFalsyLiterals == {"false", "null", "\"\""}
JsonTruthy(v) ==
    \E value \in {Trimmed(v)} :
        ~ \/ value \in JsonFalsyLiterals
          \/ IsEmptyContainer(value, "[", "]")
          \/ IsEmptyContainer(value, "{", "}")
          \/ IsZeroNumber(value)
\* v is True: the text, past the whitespace json.loads skips, is the literal true
IsTrue(v) == Trimmed(v) = "true"
NoneValue == [type |-> "NoneType"]

\* ------------------------------------------------------------ the callers
Tasks == 1..NumTasks
\* the single logical flow the client supports: the first caller
Main == CHOOSE t \in Tasks : \A u \in Tasks : t <= u

\* ------------------------------------------------- credentials (immutable)
username == "user"
password == "secret"

\* -------------------------------------------------------------- the server
\* What the vendor's server may answer.  A login response is a status, a
\* cookie set and a JSON body; a data response is a status and a JSON body.
PlantName(p) == "Home" \o ToString(p)
PlantIdOf(p) == "P" \o ToString(p)
SerialOf(p, i) == "SN" \o ToString(p) \o ToString(i)
InverterJson(p, i) == << <<"serialNum", SerialOf(p, i)>> >>
PlantJson(p, k) ==
    [plantId |-> PlantIdOf(p), name |-> PlantName(p),
     inverters |-> [i \in 1..k |-> InverterJson(p, i)]]
\* plants 1..n in order, plant p holding shape[p] inverters
PlantsJson(shape) == [p \in 1..Len(shape) |-> PlantJson(p, shape[p])]
\* an account of two plants, each with up to MaxInverters inverters
PlantShapes == { <<a, b>> : a, b \in 0..MaxInverters }
\* a plant object without the "inverters" key
BarePlant == [plantId |-> "PX", name |-> "Bare"]
\* a plant whose inverter object has keys plantName and plantId of its own
ClashingPlant ==
    [plantId |-> "P1", name |-> "Home1",
     inverters |-> << << <<"plantName", "X">>, <<"plantId", "P1">>,
                         <<"serialNum", "SN11">> >> >>]

LoginStatuses == {HTTP_OK, 500}
CookieSets ==
    { [lang |-> "en"],
      [JSESSIONID |-> "abc123"],
      [lang |-> "en", JSESSIONID |-> "def456"] }
LoginBodies ==
    { [error |-> "denied"],
      [success |-> "false"],
      [success |-> "1", plants |-> PlantsJson(<<1>>)],
      [success |-> "false", plants |-> PlantsJson(<<1>>)],
      [success |-> "true"],
      [success |-> "true", plants |-> <<>>],
      [success |-> "true", plants |-> PlantsJson(<<1>>)],
      [success |-> "\ttrue\n", plants |-> PlantsJson(<<1>>)],
      [success |-> "true", plants |-> <<BarePlant>> \o PlantsJson(<<1>>)],
      [success |-> "true", plants |-> <<ClashingPlant>>] }
    \cup { [success |-> "true", plants |-> PlantsJson(s)] : s \in PlantShapes }
LoginResponses ==
    [status : LoginStatuses, cookies : CookieSets, body : LoginBodies]

ErrorText == "Server Error"
DataStatuses == {HTTP_OK, HTTP_UNAUTHORIZED, 403, 500}
BatteryUnitsJson == << [voltage |-> "52.1"], [voltage |-> "52.3"] >>
DataBodies ==
    { [error |-> "no data"],
      [success |-> "false"],
      [success |-> "false", error |-> "no data"],
      [success |-> " false", error |-> "no data"],
      [success |-> "1"],
      [success |-> "true"],
      [success |-> "0.00", error |-> "no data"],
      [success |-> "-0E0", error |-> "no data"],
      [success |-> "1e-400", error |-> "no data"],
      [success |-> "true", captureExtra |-> "false"],
      [success |-> "true",
       batteryArray |-> << [voltage |-> "52.1", captureExtra |-> "false"] >>],
      [success |-> "true", remainCapacity |-> "50", fullCapacity |-> "100",
       batteryArray |-> BatteryUnitsJson] }
DataResponses ==
    { [status |-> HTTP_OK, body |-> b] : b \in DataBodies }
    \cup { [status |-> s, text |-> ErrorText] : s \in DataStatuses \ {HTTP_OK} }

\* ---------------------------------------------------------------- state
VARIABLES
    session,      \* self._session: NoSession, or the aiohttp session
    jsessionid,   \* self.jsessionid: None or the cached token
    inverters,    \* self._inverters: the device list
    plantId,      \* self._plantId
    serialNum,    \* self._serialNum
    pc,           \* per caller: the await the coroutine is suspended at
    call,         \* per caller: the public call in progress, with its arguments
    ret,          \* per caller: where login() returns to
    headers,      \* per caller: the local variable headers of _request
    resp,         \* per caller: the response the current call received last
    result,       \* per caller: what the last call returned or raised
    wire          \* per caller: the requests the current call sent and the statuses it got

client == <<session, jsessionid, inverters, plantId, serialNum>>
vars == <<session, jsessionid, inverters, plantId, serialNum,
          pc, call, ret, headers, resp, result, wire>>

NoSession == [absent |-> TRUE]
NoCall == [op |-> "none"]
NoHeaders == [absent |-> TRUE]
NoResp == [absent |-> TRUE]
NoResult == [pending |-> TRUE]

Returned(v) == [returned |-> v]
Raised(exc, msg) == [raised |-> exc, message |-> msg]

InitSelections == { <<None, None>>, <<"P0", "SN000">> }

Init ==
    /\ session = NoSession
    /\ jsessionid = None
    /\ inverters = <<>>
    /\ \E sel \in InitSelections : plantId = sel[1] /\ serialNum = sel[2]
    /\ pc = [t \in Tasks |-> "idle"]
    /\ call = [t \in Tasks |-> NoCall]
    /\ ret = [t \in Tasks |-> "none"]
    /\ headers = [t \in Tasks |-> NoHeaders]
    /\ resp = [t \in Tasks |-> NoResp]
    /\ result = [t \in Tasks |-> NoResult]
    /\ wire = [t \in Tasks |-> <<>>]

\* ------------------------------------------------------- pure functions
\* the number of aiohttp.ClientSession objects the client has constructed:
\* a session carries, as its identity, its rank among them
SessionsCreated == IF session = NoSession THEN 0 ELSE session.id

\* a variant of _get_session that constructs a session on every call
get_session_always_new(ignore_ssl) ==
    [ssl |-> ~ignore_ssl, closed |-> FALSE, id |-> SessionsCreated + 1]

\* _get_session: the session after the call (created on first use only)
get_session(ignore_ssl) ==
    IF session = NoSession
    THEN [ssl |-> ~ignore_ssl, closed |-> FALSE, id |-> SessionsCreated + 1]
    ELSE session

\* a variant of _extract_jsessionid that answers None for a missing cookie
extract_jsessionid_or_none(cookies) ==
    Returned(Get(cookies, "JSESSIONID", None))

\* _extract_jsessionid: the cookie's value, or EG4AuthError
extract_jsessionid(cookies) ==
    IF "JSESSIONID" \in DOMAIN cookies
    THEN Returned(cookies.JSESSIONID)
    ELSE Raised("EG4AuthError", "Failed to retrieve JSESSIONID during login.")

\* the keys of an object given as its pairs
ObjectKeys(obj) == { obj[i][1] : i \in 1..Len(obj) }
\* the dict json.loads makes of an object: of a repeated key the last value
Dict(obj) ==
    [k \in ObjectKeys(obj) |->
        obj[CHOOSE i \in 1..Len(obj) :
                /\ obj[i][1] = k
                /\ \A j \in (i + 1)..Len(obj) : obj[j][1] # k][2]]
\* f(k=..., **d): the keys of d that are also passed by keyword
Clashes(d, keywords) == DOMAIN d \cap keywords
\* f(k=..., **d) for d made of the pairs obj: the first key, in the order of
\* the dict, that is also passed by keyword
FirstClash(obj, keywords) ==
    obj[CHOOSE i \in 1..Len(obj) :
            /\ obj[i][1] \in keywords
            /\ \A j \in 1..(i - 1) : obj[j][1] \notin keywords][1]
\* the TypeError of Python for such a call: it names the first clashing key k
MultipleValues(ctor, k) ==
    Raised("TypeError",
           "eg4_inverter_api.models." \o ctor
               \o "() got multiple values for keyword argument '" \o k \o "'")

\* models.Inverter(plantId=..., plantName=..., **inverter)
Inverter(pid, pname, inverter) ==
    [plantId |-> pid, plantName |-> pname,
     serialNum |-> Get(inverter, "serialNum", None)]
\* the keywords _extract_inverters passes Inverter beside **inverter
InverterKeywords == {"plantId", "plantName", "captureExtra"}

\* the inner loop of _extract_inverters over one plant: its devices, or the
\* TypeError of the first inverter object that clashes with the keywords
PlantInverters(plant) ==
    LET pid == Get(plant, "plantId", None)
        pname == Get(plant, "name", None)
        invs == Get(plant, "inverters", <<>>)
        bad == { i \in 1..Len(invs) :
                    ObjectKeys(invs[i]) \cap InverterKeywords # {} }
    IN  IF bad # {}
        THEN MultipleValues("Inverter",
                            FirstClash(invs[CHOOSE i \in bad : \A j \in bad : i <= j],
                                       InverterKeywords))
        ELSE Returned([i \in 1..Len(invs) |->
                          Inverter(pid, pname, Dict(invs[i]))])

RECURSIVE CollectInverters(_, _)
\* the outer loop of _extract_inverters, from plant k on
CollectInverters(plants, k) ==
    IF k > Len(plants)
    THEN Returned(<<>>)
    ELSE LET here == PlantInverters(plants[k])
         IN  IF "raised" \in DOMAIN here
             THEN here
             ELSE LET rest == CollectInverters(plants, k + 1)
                  IN  IF "raised" \in DOMAIN rest
                      THEN rest
                      ELSE Returned(here.returned \o rest.returned)

\* _extract_inverters: the devices in response order, or EG4APIError
extract_inverters(data) ==
    LET found == CollectInverters(Get(data, "plants", <<>>), 1)
    IN  IF "raised" \in DOMAIN found
        THEN found
        ELSE IF found.returned = <<>>
        THEN Raised("EG4APIError", "No inverters found in the response data.")
        ELSE found

\* a variant of the test of login that only asks for the key
LoginBodyRejected_key_only(data) == "success" \notin DOMAIN data

\* the test of login on the body: "success" not in data or data["success"] is not True
LoginBodyRejected(data) ==
    \/ "success" \notin DOMAIN data
    \/ ~IsTrue(data.success)

\* models.RuntimeData / EnergyData (captureExtra=..., **response)
RuntimeData(captureExtra, response) ==
    [type |-> "RuntimeData", captureExtra |-> captureExtra, fields |-> response]
EnergyData(captureExtra, response) ==
    [type |-> "EnergyData", captureExtra |-> captureExtra, fields |-> response]
\* models.BatteryUnit(captureExtra=..., **unit)
BatteryUnit(captureExtra, unit) ==
    [type |-> "BatteryUnit", captureExtra |-> captureExtra, fields |-> unit]
\* models.BatteryData(remainCapacity=..., ..., battery_units=...)
BatteryData(remain, full, total, voltage, current, units) ==
    [type |-> "BatteryData", remainCapacity |-> remain, fullCapacity |-> full,
     totalNumber |-> total, totalVoltageText |-> voltage, currentText |-> current,
     battery_units |-> units]
\* models.APIResponse(success=..., error_message=...)
APIResponse(success, error_message) ==
    [type |-> "APIResponse", success |-> success, error_message |-> error_message]

\* response.get("success") as a condition
BodySucceeded(response) == JsonTruthy(Get(response, "success", "null"))

\* the one keyword the data calls pass their record beside **response / **unit
DataKeywords == {"captureExtra"}
\* the key a clashing body or unit d is refused for: the only keyword
DataClash(d) == CHOOSE k \in Clashes(d, DataKeywords) : TRUE

\* what get_inverter_runtime_async makes of the body _request returned
runtime_result(captureExtra, response) ==
    IF BodySucceeded(response)
    THEN IF Clashes(response, DataKeywords) # {}
         THEN MultipleValues("RuntimeData", DataClash(response))
         ELSE Returned(RuntimeData(captureExtra, response))
    ELSE Returned(APIResponse(FALSE, Get(response, "error", None)))

\* what get_inverter_energy_async makes of the body _request returned
energy_result(captureExtra, response) ==
    IF BodySucceeded(response)
    THEN IF Clashes(response, DataKeywords) # {}
         THEN MultipleValues("EnergyData", DataClash(response))
         ELSE Returned(EnergyData(captureExtra, response))
    ELSE Returned(APIResponse(FALSE, Get(response, "error", None)))

\* the list comprehension of get_inverter_battery_async: the units in order,
\* or the TypeError of the first unit object that clashes with the keyword
battery_units(captureExtra, arr) ==
    LET bad == { i \in 1..Len(arr) : Clashes(arr[i], DataKeywords) # {} }
    IN  IF bad # {}
        THEN MultipleValues("BatteryUnit",
                            DataClash(arr[CHOOSE i \in bad : \A j \in bad : i <= j]))
        ELSE Returned([i \in 1..Len(arr) |-> BatteryUnit(captureExtra, arr[i])])

\* BatteryData(...) of get_inverter_battery_async over the units built
battery_data(response, units) ==
    BatteryData(Get(response, "remainCapacity", None),
                Get(response, "fullCapacity", None),
                Get(response, "totalNumber", None),
                Get(response, "totalVoltageText", None),
                Get(response, "currentText", None),
                units)

\* a variant of get_inverter_battery_async that drops the vendor's message
battery_result_no_message(captureExtra, response) ==
    IF BodySucceeded(response)
    THEN LET units == battery_units(captureExtra,
                                    Get(response, "batteryArray", <<>>))
         IN  IF "raised" \in DOMAIN units
             THEN units
             ELSE Returned(battery_data(response, units.returned))
    ELSE Returned(APIResponse(FALSE, None))

\* what get_inverter_battery_async makes of the body _request returned
battery_result(captureExtra, response) ==
    IF BodySucceeded(response)
    THEN LET units == battery_units(captureExtra,
                                    Get(response, "batteryArray", <<>>))
         IN  IF "raised" \in DOMAIN units
             THEN units
             ELSE Returned(battery_data(response, units.returned))
    ELSE Returned(APIResponse(FALSE, Get(response, "error", None)))

\* what the data call in progress returns or raises on the body
data_result(c, response) ==
    CASE c.op = "runtime" -> runtime_result(c.captureExtra, response)
      [] c.op = "energy" -> energy_result(c.captureExtra, response)
      [] c.op = "battery" -> battery_result(c.captureExtra, response)

\* list[i] of Python for an integer i: negative indexes count from the end
PyIndex(list, i) ==
    IF i >= 0 /\ i < Len(list) THEN Returned(list[i + 1])
    ELSE IF i < 0 /\ i >= -Len(list) THEN Returned(list[Len(list) + i + 1])
    ELSE Raised("IndexError", "list index out of range")

\* a variant of set_selected_inverter that looks at the index first
selected_inverter_index_first(args) ==
    IF "inverterIndex" \in DOMAIN args /\ Len(inverters) > args.inverterIndex
    THEN LET got == PyIndex(inverters, args.inverterIndex)
         IN  IF "raised" \in DOMAIN got
             THEN got
             ELSE Returned([plantId |-> got.returned.plantId,
                            serialNum |-> got.returned.serialNum])
    ELSE IF "plantId" \in DOMAIN args /\ "serialNum" \in DOMAIN args
    THEN Returned([plantId |-> args.plantId, serialNum |-> args.serialNum])
    ELSE Raised("EG4APIError", "No Inverter or Plant/Serial selection")

\* set_selected_inverter: the selection it sets, or the error it raises
selected_inverter(args) ==
    IF "plantId" \in DOMAIN args /\ "serialNum" \in DOMAIN args
    THEN Returned([plantId |-> args.plantId, serialNum |-> args.serialNum])
    ELSE IF "inverterIndex" \in DOMAIN args /\ Len(inverters) > args.inverterIndex
    THEN LET got == PyIndex(inverters, args.inverterIndex)
         IN  IF "raised" \in DOMAIN got
             THEN got
             ELSE Returned([plantId |-> got.returned.plantId,
                            serialNum |-> got.returned.serialNum])
    ELSE Raised("EG4APIError", "No Inverter or Plant/Serial selection")

\* ------------------------------------------------------------ the wire
LoginRequest ==
    [kind |-> "login", method |-> "POST", url |-> login_url,
     data |-> "account=" \o username \o "&password=" \o password]
DataRequest(c, h) ==
    [kind |-> "data", method |-> c.method, url |-> c.url, data |-> c.payload,
     headers |-> h]
StatusLine(kind, status) == [kind |-> kind, status |-> status]

\* ------------------------------------------------ fragments of a coroutine
task_update(t, newpc, newret, newheaders, newresult, newwire) ==
    /\ pc' = [pc EXCEPT ![t] = newpc]
    /\ ret' = [ret EXCEPT ![t] = newret]
    /\ headers' = [headers EXCEPT ![t] = newheaders]
    /\ result' = [result EXCEPT ![t] = newresult]
    /\ wire' = [wire EXCEPT ![t] = newwire]

\* the call returns or raises to the caller of the public method
exit_call(t, res, w) == task_update(t, "done", "none", NoHeaders, res, w)

\* aiohttp refuses a request on a closed session
SessionClosed == Raised("RuntimeError", "Session is closed")

\* login, lines 66-69: take the session and post the credentials
login_post(t, ignore_ssl, from, w) ==
    LET s == get_session(ignore_ssl)
    IN  /\ session' = s
        /\ IF s.closed
           THEN exit_call(t, SessionClosed, w)
           ELSE task_update(t, "login_wait", from, headers[t], NoResult,
                            Append(w, LoginRequest))

\* _request, lines 113-118: take the session, build the headers, send
request_first(t, c, w) ==
    LET s == get_session(FALSE)
        h == [Cookie |-> "JSESSIONID=" \o Str(jsessionid)]
    IN  /\ session' = s
        /\ IF s.closed
           THEN exit_call(t, SessionClosed, w)
           ELSE task_update(t, "request_wait", "none", h, NoResult,
                            Append(w, DataRequest(c, h)))

\* _request, lines 121-123: send the request again
request_retry(t, c, w) ==
    /\ session' = session
    /\ IF session.closed
       THEN exit_call(t, SessionClosed, w)
       ELSE task_update(t, "retry_wait", "none", headers[t], NoResult,
                        Append(w, DataRequest(c, headers[t])))

\* login returns normally: to the caller, or into _request
login_return(t) ==
    CASE ret[t] = "caller" ->
            /\ exit_call(t, Returned(NoneValue), wire[t])
            /\ UNCHANGED session
      [] ret[t] = "initial" -> request_first(t, call[t], wire[t])
      [] ret[t] = "relogin" -> request_retry(t, call[t], wire[t])

\* ------------------------------------------------------ the server's steps
\* the server answers the login request a caller is waiting on
server_login_reply_from(t, answers) ==
    /\ pc[t] = "login_wait"
    /\ \E r \in answers :
        /\ resp' = [resp EXCEPT ![t] = r]
        /\ wire' = [wire EXCEPT ![t] = Append(@, StatusLine("login_status", r.status))]
    /\ pc' = [pc EXCEPT ![t] = "login_status"]
    /\ UNCHANGED <<client, call, ret, headers, result>>
server_login_reply(t) == server_login_reply_from(t, LoginResponses)

\* the server answers the data request (first or retried) a caller is waiting on
server_data_reply_from(t, answers) ==
    /\ pc[t] \in {"request_wait", "retry_wait"}
    /\ \E r \in answers :
        /\ resp' = [resp EXCEPT ![t] = r]
        /\ wire' = [wire EXCEPT ![t] = Append(@, StatusLine("status", r.status))]
    /\ pc' = [pc EXCEPT ![t] = IF pc[t] = "request_wait"
                               THEN "request_status" ELSE "retry_status"]
    /\ UNCHANGED <<client, call, ret, headers, result>>
server_data_reply(t) == server_data_reply_from(t, DataResponses)

\* ------------------------------------------------------ the client's steps
\* login(ignore_ssl), called by the user
login(t) ==
    /\ pc[t] = "idle"
    /\ \E ignore_ssl \in BOOLEAN :
        /\ call' = [call EXCEPT ![t] = [op |-> "login", ignore_ssl |-> ignore_ssl]]
        /\ login_post(t, ignore_ssl, "caller", <<>>)
    /\ UNCHANGED <<jsessionid, inverters, plantId, serialNum, resp>>

\* a variant of login that, on caching a token, cancels the requests the
\* other callers have in flight
login_status_cancelling_others(t) ==
    /\ pc[t] = "login_status"
    /\ LET r == resp[t]
           j == extract_jsessionid(r.cookies)
           cancelled == { u \in Tasks \ {t} : pc[u] \in {"request_wait", "retry_wait"} }
       IN  IF r.status # HTTP_OK
           THEN /\ exit_call(t, Raised("EG4AuthError",
                        "Login failed. Please check your credentials."), wire[t])
                /\ UNCHANGED jsessionid
           ELSE IF "raised" \in DOMAIN j
           THEN /\ exit_call(t, j, wire[t])
                /\ UNCHANGED jsessionid
           ELSE /\ jsessionid' = j.returned
                /\ pc' = [u \in Tasks |->
                            IF u = t THEN "login_json"
                            ELSE IF u \in cancelled THEN "done" ELSE pc[u]]
                /\ result' = [u \in Tasks |->
                            IF u \in cancelled
                            THEN Raised("CancelledError", "")
                            ELSE result[u]]
                /\ headers' = [u \in Tasks |->
                            IF u \in cancelled THEN NoHeaders ELSE headers[u]]
                /\ UNCHANGED <<ret, wire>>
    /\ UNCHANGED <<session, inverters, plantId, serialNum, call, resp>>

\* login, lines 70-71 and 77-78: the status line and the cookies are in
login_status(t) ==
    /\ pc[t] = "login_status"
    /\ LET r == resp[t]
           j == extract_jsessionid(r.cookies)
       IN  IF r.status # HTTP_OK
           THEN /\ exit_call(t, Raised("EG4AuthError",
                        "Login failed. Please check your credentials."), wire[t])
                /\ UNCHANGED jsessionid
           ELSE IF "raised" \in DOMAIN j
           THEN /\ exit_call(t, j, wire[t])
                /\ UNCHANGED jsessionid
           ELSE /\ jsessionid' = j.returned
                /\ task_update(t, "login_json", ret[t], headers[t], NoResult, wire[t])
    /\ UNCHANGED <<session, inverters, plantId, serialNum, call, resp>>

\* a variant of login that selects the first device of the response
login_body_selecting_first(t) ==
    /\ pc[t] = "login_json"
    /\ LET data == resp[t].body
           e == extract_inverters(data)
       IN  IF LoginBodyRejected(data)
           THEN /\ exit_call(t, Raised("EG4AuthError",
                        "Login failed. Please check your credentials."), wire[t])
                /\ UNCHANGED <<session, inverters, plantId, serialNum>>
           ELSE IF "raised" \in DOMAIN e
           THEN /\ exit_call(t, e, wire[t])
                /\ UNCHANGED <<session, inverters, plantId, serialNum>>
           ELSE /\ inverters' = e.returned
                /\ plantId' = e.returned[1].plantId
                /\ serialNum' = e.returned[1].serialNum
                /\ login_return(t)
    /\ UNCHANGED <<jsessionid, call, resp>>

\* a variant of login that adds the devices of the response to the list
login_body_appending(t) ==
    /\ pc[t] = "login_json"
    /\ LET data == resp[t].body
           e == extract_inverters(data)
       IN  IF LoginBodyRejected(data)
           THEN /\ exit_call(t, Raised("EG4AuthError",
                        "Login failed. Please check your credentials."), wire[t])
                /\ UNCHANGED <<session, inverters>>
           ELSE IF "raised" \in DOMAIN e
           THEN /\ exit_call(t, e, wire[t])
                /\ UNCHANGED <<session, inverters>>
           ELSE /\ inverters' = inverters \o e.returned
                /\ login_return(t)
    /\ UNCHANGED <<jsessionid, plantId, serialNum, call, resp>>

\* login, lines 72-76: the body is in
login_body(t) ==
    /\ pc[t] = "login_json"
    /\ LET data == resp[t].body
           e == extract_inverters(data)
       IN  IF LoginBodyRejected(data)
           THEN /\ exit_call(t, Raised("EG4AuthError",
                        "Login failed. Please check your credentials."), wire[t])
                /\ UNCHANGED <<session, inverters>>
           ELSE IF "raised" \in DOMAIN e
           THEN /\ exit_call(t, e, wire[t])
                /\ UNCHANGED <<session, inverters>>
           ELSE /\ inverters' = e.returned
                /\ login_return(t)
    /\ UNCHANGED <<jsessionid, plantId, serialNum, call, resp>>

CaptureExtraArgs == BOOLEAN

\* a variant of a data call whose _request never logs in first
data_call_no_login(t, op, url) ==
    /\ pc[t] = "idle"
    /\ \E captureExtra \in CaptureExtraArgs :
        LET c == [op |-> op, captureExtra |-> captureExtra, method |-> "POST",
                  url |-> url, payload |-> "serialNum=" \o Str(serialNum)]
        IN  /\ call' = [call EXCEPT ![t] = c]
            /\ request_first(t, c, <<>>)
    /\ UNCHANGED <<jsessionid, inverters, plantId, serialNum, resp>>

\* a data call up to its first await: the payload, then _request lines 110-118
data_call(t, op, url) ==
    /\ pc[t] = "idle"
    /\ \E captureExtra \in CaptureExtraArgs :
        LET c == [op |-> op, captureExtra |-> captureExtra, method |-> "POST",
                  url |-> url, payload |-> "serialNum=" \o Str(serialNum)]
        IN  /\ call' = [call EXCEPT ![t] = c]
            /\ IF ~TokenTruthy(jsessionid)
               THEN login_post(t, FALSE, "initial", <<>>)
               ELSE request_first(t, c, <<>>)
    /\ UNCHANGED <<jsessionid, inverters, plantId, serialNum, resp>>

get_inverter_runtime_async(t) == data_call(t, "runtime", inverter_runtime_url)
get_inverter_energy_async(t) == data_call(t, "energy", inverter_energy_url)
get_inverter_battery_async(t) == data_call(t, "battery", inverter_battery_url)

\* a variant of _request that re-authenticates on every status but 200
request_response_relogin_on_any(t) ==
    /\ pc[t] = "request_status"
    /\ LET r == resp[t]
       IN  IF r.status # HTTP_OK
           THEN login_post(t, FALSE, "relogin", wire[t])
           ELSE /\ task_update(t, "request_json", "none", headers[t], NoResult,
                               wire[t])
                /\ UNCHANGED session
    /\ UNCHANGED <<jsessionid, inverters, plantId, serialNum, call, resp>>

\* _request, lines 119-120, 130 and 135: the status of the first response is
\* in; on a 401 login again, else await the text or the JSON of the body
request_response(t) ==
    /\ pc[t] = "request_status"
    /\ LET r == resp[t]
       IN  IF r.status = HTTP_UNAUTHORIZED
           THEN login_post(t, FALSE, "relogin", wire[t])
           ELSE /\ task_update(t, IF r.status # HTTP_OK
                                  THEN "request_text" ELSE "request_json",
                               "none", headers[t], NoResult, wire[t])
                /\ UNCHANGED session
    /\ UNCHANGED <<jsessionid, inverters, plantId, serialNum, call, resp>>

\* _request, lines 131-133: the text of a first response that is neither
\* 200 nor 401 is in
request_text(t) ==
    /\ pc[t] = "request_text"
    /\ exit_call(t, Raised("EG4APIError",
                    "API request failed: " \o ToString(resp[t].status)
                        \o " - " \o resp[t].text), wire[t])
    /\ UNCHANGED <<session, jsessionid, inverters, plantId, serialNum, call, resp>>

\* _request, line 135, and the caller's use of the body: the JSON of the
\* first response is in
request_json(t) ==
    /\ pc[t] = "request_json"
    /\ exit_call(t, data_result(call[t], resp[t].body), wire[t])
    /\ UNCHANGED <<session, jsessionid, inverters, plantId, serialNum, call, resp>>

\* a variant of _request that does not look at the retry's status
retry_response_unchecked(t) ==
    /\ pc[t] = "retry_status"
    /\ exit_call(t, data_result(call[t], Get(resp[t], "body", <<>>)), wire[t])
    /\ UNCHANGED <<session, jsessionid, inverters, plantId, serialNum, call, resp>>

\* a variant of _request that re-authenticates on a 401 to the retry as well
retry_response_relogin_again(t) ==
    /\ pc[t] = "retry_status"
    /\ LET r == resp[t]
       IN  IF r.status = HTTP_UNAUTHORIZED
           THEN login_post(t, FALSE, "relogin", wire[t])
           ELSE IF r.status # HTTP_OK
           THEN /\ exit_call(t, Raised("EG4APIError",
                        "API request failed: " \o ToString(r.status)), wire[t])
                /\ UNCHANGED session
           ELSE /\ task_update(t, "retry_json", "none", headers[t], NoResult,
                               wire[t])
                /\ UNCHANGED session
    /\ UNCHANGED <<jsessionid, inverters, plantId, serialNum, call, resp>>

\* _request, lines 124-128: the status of the response to the retried
\* request is in; raise on any status but 200, else await the JSON of the body
retry_response(t) ==
    /\ pc[t] = "retry_status"
    /\ LET r == resp[t]
       IN  IF r.status # HTTP_OK
           THEN exit_call(t, Raised("EG4APIError",
                    "API request failed: " \o ToString(r.status)), wire[t])
           ELSE task_update(t, "retry_json", "none", headers[t], NoResult,
                            wire[t])
    /\ UNCHANGED <<session, jsessionid, inverters, plantId, serialNum, call, resp>>

\* _request, line 128, and the caller's use of the body: the JSON of the
\* response to the retried request is in
retry_json(t) ==
    /\ pc[t] = "retry_json"
    /\ exit_call(t, data_result(call[t], resp[t].body), wire[t])
    /\ UNCHANGED <<session, jsessionid, inverters, plantId, serialNum, call, resp>>

\* the arguments a caller may pass set_selected_inverter; an omitted
\* argument (or None) is an absent field
MaxIndex == 2 * MaxInverters
Restrict(f, K) == [k \in K |-> f[k]]
SelectArgs ==
    { Restrict([plantId |-> "P9", serialNum |-> "SN999", inverterIndex |-> i], K) :
        i \in -(MaxIndex + 1)..MaxIndex,
        K \in SUBSET {"plantId", "serialNum", "inverterIndex"} }

\* set_selected_inverter(plantId, serialNum, inverterIndex)
set_selected_inverter(t) ==
    /\ pc[t] = "idle"
    /\ \E args \in SelectArgs :
        LET sel == selected_inverter(args)
        IN  /\ call' = [call EXCEPT ![t] = [op |-> "select", args |-> args]]
            /\ IF "raised" \in DOMAIN sel
               THEN /\ exit_call(t, sel, <<>>)
                    /\ UNCHANGED <<plantId, serialNum>>
               ELSE /\ plantId' = sel.returned.plantId
                    /\ serialNum' = sel.returned.serialNum
                    /\ exit_call(t, Returned(NoneValue), <<>>)
    /\ UNCHANGED <<session, jsessionid, inverters, resp>>

\* a variant of close that calls self._session.close() without looking at it
close_unguarded(t) ==
    /\ pc[t] = "idle"
    /\ call' = [call EXCEPT ![t] = [op |-> "close"]]
    /\ session' = IF session # NoSession
                  THEN [session EXCEPT !.closed = TRUE]
                  ELSE session
    /\ exit_call(t, IF session # NoSession
                    THEN Returned(NoneValue)
                    ELSE Raised("AttributeError",
                                "'NoneType' object has no attribute 'close'"),
                 <<>>)
    /\ UNCHANGED <<jsessionid, inverters, plantId, serialNum, resp>>

\* close()
close(t) ==
    /\ pc[t] = "idle"
    /\ call' = [call EXCEPT ![t] = [op |-> "close"]]
    /\ session' = IF session # NoSession
                  THEN [session EXCEPT !.closed = TRUE]
                  ELSE session
    /\ exit_call(t, Returned(NoneValue), <<>>)
    /\ UNCHANGED <<jsessionid, inverters, plantId, serialNum, resp>>

\* the caller takes what the call returned or raised and goes on
return_to_caller(t) ==
    /\ pc[t] = "done"
    /\ pc' = [pc EXCEPT ![t] = "idle"]
    /\ call' = [call EXCEPT ![t] = NoCall]
    /\ resp' = [resp EXCEPT ![t] = NoResp]
    /\ result' = [result EXCEPT ![t] = NoResult]
    /\ wire' = [wire EXCEPT ![t] = <<>>]
    /\ UNCHANGED <<client, ret, headers>>

Step(t) ==
    \/ return_to_caller(t)
    \/ login(t)
    \/ server_login_reply(t)
    \/ login_status(t)
    \/ login_body(t)
    \/ get_inverter_runtime_async(t)
    \/ get_inverter_energy_async(t)
    \/ get_inverter_battery_async(t)
    \/ server_data_reply(t)
    \/ request_response(t)
    \/ request_text(t)
    \/ request_json(t)
    \/ retry_response(t)
    \/ retry_json(t)
    \/ set_selected_inverter(t)
    \/ close(t)

\* single flight: one caller, one call at a time
Next == Step(Main)
Spec == Init /\ [][Next]_vars

\* Single flight, data calls only, with a server that answers every request
\* and an event loop that resumes a coroutine whose answer is in.  The login
\* answers are every status and cookie set with the bodies of accounts of
\* at most one device.
LiveLoginResponses ==
    [status : LoginStatuses, cookies : CookieSets,
     body : LoginBodies \ { [success |-> "true", plants |-> PlantsJson(s)] :
                                s \in PlantShapes \ {<<0, 0>>} }]
\* the steps of a call under way: the server answers, the coroutine resumes
InCallStep(t) ==
    \/ server_login_reply_from(t, LiveLoginResponses)
    \/ login_status(t)
    \/ login_body(t)
    \/ server_data_reply(t)
    \/ request_response(t)
    \/ request_text(t)
    \/ request_json(t)
    \/ retry_response(t)
    \/ retry_json(t)
StepLive(t) ==
    \/ return_to_caller(t)
    \/ get_inverter_runtime_async(t)
    \/ get_inverter_energy_async(t)
    \/ get_inverter_battery_async(t)
    \/ close(t)
    \/ InCallStep(t)
NextLive == StepLive(Main)
SpecLive == Init /\ [][NextLive]_vars /\ WF_vars(InCallStep(Main))

\* Callers sharing one client that was constructed with a serial: every
\* caller makes runtime calls with the default captureExtra, and the server
\* answers a login with a 200 carrying a token and one device, and a data
\* request with a 401 or with a 200.
ConcLoginResponses ==
    [status : {HTTP_OK},
     cookies : { c \in CookieSets : "JSESSIONID" \in DOMAIN c },
     body : {[success |-> "true", plants |-> PlantsJson(<<1>>)]} \cap LoginBodies]
ConcDataResponses ==
    { r \in DataResponses : r.status = HTTP_UNAUTHORIZED }
    \cup { [status |-> HTTP_OK, body |-> b] : b \in {[success |-> "true"]} \cap DataBodies }
InitConc == Init /\ serialNum # None

StepConc(t) ==
    \/ return_to_caller(t)
    \/ get_inverter_runtime_async(t) /\ call'[t].captureExtra
    \/ server_login_reply_from(t, ConcLoginResponses)
    \/ login_status(t)
    \/ login_body(t)
    \/ server_data_reply_from(t, ConcDataResponses)
    \/ request_response(t)
    \/ request_json(t)
    \/ retry_response(t)
    \/ retry_json(t)

NextConc == \E t \in Tasks : StepConc(t)
SpecConc == InitConc /\ [][NextConc]_vars

\* =================================================================== claims
\* Reading the exchange of a call off its wire log.
IsDataCall(c) == c.op \in {"runtime", "energy", "battery"}
IsLoginResponse(r) == "cookies" \in DOMAIN r
IsDataResponse(r) == "cookies" \notin DOMAIN r /\ "status" \in DOMAIN r
DataReqs(w) == SelectSeq(w, LAMBDA e : e.kind = "data")
LoginReqs(w) == SelectSeq(w, LAMBDA e : e.kind = "login")
DataStatusLines(w) == SelectSeq(w, LAMBDA e : e.kind = "status")
\* the number of login requests sent after the first data request
LoginsAfterFirstData(w) ==
    Cardinality({ j \in 1..Len(w) :
        /\ w[j].kind = "login"
        /\ \E i \in 1..(j - 1) : w[i].kind = "data" })
SameRequest(a, b) == a.method = b.method /\ a.url = b.url /\ a.data = b.data
HasRaised(res, exc) == "raised" \in DOMAIN res /\ res.raised = exc
\* a finished data call whose first data response was a 401
Got401(t) ==
    /\ pc[t] = "done"
    /\ IsDataCall(call[t])
    /\ DataStatusLines(wire[t]) # <<>>
    /\ DataStatusLines(wire[t])[1].status = 401
\* the result res of the data call c is made of the parsed body and of
\* nothing else: the failure value with the body's error, the data record
\* holding the body, the aggregate battery record with the body's capacities
\* and one unit per element of its batteryArray, or the TypeError of a body
\* that repeats a keyword of the record
CarriesBody(res, c, body) ==
    \/ /\ "returned" \in DOMAIN res
       /\ res.returned.type = "APIResponse"
       /\ res.returned.success = FALSE
       /\ res.returned.error_message
            = (IF "error" \in DOMAIN body THEN body.error ELSE None)
    \/ /\ "returned" \in DOMAIN res
       /\ \/ c.op = "runtime" /\ res.returned.type = "RuntimeData"
          \/ c.op = "energy" /\ res.returned.type = "EnergyData"
       /\ res.returned.fields = body
       /\ res.returned.captureExtra = c.captureExtra
    \/ /\ "returned" \in DOMAIN res
       /\ c.op = "battery"
       /\ res.returned.type = "BatteryData"
       /\ res.returned.remainCapacity
            = (IF "remainCapacity" \in DOMAIN body THEN body.remainCapacity ELSE None)
       /\ res.returned.fullCapacity
            = (IF "fullCapacity" \in DOMAIN body THEN body.fullCapacity ELSE None)
       /\ LET arr == IF "batteryArray" \in DOMAIN body
                     THEN body.batteryArray ELSE <<>>
          IN  /\ Len(res.returned.battery_units) = Len(arr)
              /\ \A i \in 1..Len(arr) :
                    res.returned.battery_units[i].fields = arr[i]
    \/ /\ "raised" \in DOMAIN res
       /\ res.raised = "TypeError"
\* what a finished call must have produced from the retry's response
RetryOutcome(t) ==
    /\ IsDataResponse(resp[t])
    /\ resp[t].status # 200 =>
          result[t] = Raised("EG4APIError",
                             "API request failed: " \o ToString(resp[t].status))
    /\ resp[t].status = 200 => CarriesBody(result[t], call[t], resp[t].body)

\* C1 as claimed: every data call whose first response is a 401 performs
\* exactly one re-login and sends exactly one retry of the same request, and
\* ends with APIError(retry status) or the retry's body.
C1_AlwaysOneRetry ==
    \A t \in Tasks : Got401(t) =>
        /\ LoginsAfterFirstData(wire[t]) = 1
        /\ Len(DataReqs(wire[t])) = 2
        /\ SameRequest(DataReqs(wire[t])[1], DataReqs(wire[t])[2])
        /\ Len(DataStatusLines(wire[t])) = 2
        /\ RetryOutcome(t)

\* C1 amended: every data call whose first response is a 401 performs
\* exactly one re-login; if that re-login raises, the call raises its error
\* and no retry is sent; otherwise exactly one retry of the same
\* method/url/payload is sent, after which nothing more is sent, and the call
\* raises APIError with the retry's status if it is not 200, and if it is
\* _request returns the retry's parsed body: the data call ends with the
\* value, or the TypeError, that it builds from that body.
C1_OneReloginOneRetry ==
    \A t \in Tasks : Got401(t) =>
        /\ LoginsAfterFirstData(wire[t]) = 1
        /\ IF IsLoginResponse(resp[t])
           THEN /\ Len(DataReqs(wire[t])) = 1
                /\ "raised" \in DOMAIN result[t]
                /\ result[t].raised \in {"EG4AuthError", "EG4APIError", "TypeError"}
                /\ wire[t][Len(wire[t])].kind = "login_status"
           ELSE /\ Len(DataReqs(wire[t])) = 2
                /\ SameRequest(DataReqs(wire[t])[1], DataReqs(wire[t])[2])
                /\ Len(DataStatusLines(wire[t])) = 2
                /\ wire[t][Len(wire[t])].kind = "status"
                /\ wire[t][Len(wire[t]) - 1].kind = "data"
                /\ RetryOutcome(t)

\* a 401, a re-login, a retry answered 500: APIError carrying 500
C1_Witness ==
    \E t \in Tasks :
        /\ Got401(t)
        /\ Len(DataReqs(wire[t])) = 2
        /\ resp[t].status = 500
        /\ result[t] = Raised("EG4APIError", "API request failed: 500")

\* C2 as claimed: a data request in flight carries, as its JSESSIONID
\* cookie, the token cached in the client when it was sent (single flight:
\* the cached token cannot change while the request is in flight).
C2_CookieIsCachedToken ==
    \A t \in Tasks : pc[t] \in {"request_wait", "retry_wait"} =>
        wire[t][Len(wire[t])].headers.Cookie = "JSESSIONID=" \o Str(jsessionid)

\* the re-login brought a new token and the retry still carries the old one
C2_StaleRetry ==
    \E t \in Tasks :
        /\ pc[t] = "retry_wait"
        /\ jsessionid = "def456"
        /\ wire[t][Len(wire[t])].headers.Cookie = "JSESSIONID=abc123"

\* C3: a data call made while no token is cached (on a session that is not
\* closed) posts a login first, sends its first data request only in the step
\* in which that login returns, and sends none if that login raises; a data
\* call made while a token is cached sends its data request first.
C3_LoginBeforeFirstRequest ==
    [][\A t \in Tasks :
        /\ (pc[t] = "idle" /\ pc'[t] # "idle" /\ IsDataCall(call'[t])
                /\ session' # NoSession /\ ~session'.closed) =>
              IF jsessionid = None
              THEN wire'[t] = <<LoginRequest>> /\ pc'[t] = "login_wait"
              ELSE /\ Len(wire'[t]) = 1
                   /\ wire'[t][1].kind = "data"
                   /\ pc'[t] = "request_wait"
        /\ (ret[t] = "initial" /\ pc'[t] # pc[t]) =>
              /\ DataReqs(wire[t]) = <<>>
              /\ DataReqs(wire'[t]) # <<>> =>
                    /\ pc[t] = "login_json"
                    /\ pc'[t] = "request_wait"
                    /\ ~LoginBodyRejected(resp[t].body)
                    /\ jsessionid' # None
                    /\ inverters' # <<>>
              /\ pc'[t] = "done" =>
                    /\ "raised" \in DOMAIN result'[t]
                    /\ DataReqs(wire'[t]) = <<>>
      ]_vars

\* a data call that began without a token, logged in and then sent its request
C3_Witness ==
    \E t \in Tasks :
        /\ pc[t] = "request_wait"
        /\ Len(wire[t]) = 3
        /\ wire[t][1].kind = "login"
        /\ wire[t][3].kind = "data"

\* C4 as claimed: outside the two steps of a login in progress, a token is
\* cached only if the device list is non-empty (so only after a login that
\* succeeded).
C4_TokenOnlyAfterLogin ==
    (\A t \in Tasks : pc[t] # "login_json") =>
        (jsessionid # None => inverters # <<>>)

\* C5: a login whose response body lacks success: true ends in EG4AuthError,
\* whatever the status and the cookies of the response.
C5_NoSuccessMeansAuthError ==
    \A t \in Tasks :
        (/\ pc[t] = "done"
         /\ IsLoginResponse(resp[t])
         /\ ~("success" \in DOMAIN resp[t].body /\ IsTrue(resp[t].body.success))) =>
            HasRaised(result[t], "EG4AuthError")

\* status 200 with the cookie, and a body whose success is the number 1
C5_Witness ==
    \E t \in Tasks :
        /\ pc[t] = "done"
        /\ call[t].op = "login"
        /\ IsLoginResponse(resp[t])
        /\ resp[t].status = 200
        /\ "JSESSIONID" \in DOMAIN resp[t].cookies
        /\ "success" \in DOMAIN resp[t].body
        /\ resp[t].body.success = "1"
        /\ HasRaised(result[t], "EG4AuthError")

\* C6: the step that reads a 200 login response without a JSESSIONID cookie
\* raises EG4AuthError and changes neither the cached token nor the device
\* list, whatever the body.
C6_NoCookieMeansAuthError ==
    [][\A t \in Tasks :
        (/\ pc[t] = "login_status"
         /\ resp[t].status = 200
         /\ "JSESSIONID" \notin DOMAIN resp[t].cookies
         /\ pc'[t] # pc[t]) =>
            /\ pc'[t] = "done"
            /\ HasRaised(result'[t], "EG4AuthError")
            /\ jsessionid' = jsessionid
            /\ inverters' = inverters
      ]_vars

\* a re-login whose body is fine but which has no cookie: the token and the
\* devices of the earlier login are still there
C6_Witness ==
    \E t \in Tasks :
        /\ pc[t] = "done"
        /\ IsLoginResponse(resp[t])
        /\ resp[t].status = 200
        /\ "JSESSIONID" \notin DOMAIN resp[t].cookies
        /\ ~LoginBodyRejected(resp[t].body)
        /\ Get(resp[t].body, "plants", <<>>) # <<>>
        /\ HasRaised(result[t], "EG4AuthError")
        /\ jsessionid = "abc123"
        /\ inverters # <<>>

\* C7: a data call (runtime, energy or battery) that reads a 200 whose body
\* has a success that is false or absent awaits the body and then returns
\* APIResponse(success=False, error_message=body.get("error")); neither of
\* the two steps changes the token, the device list or the selection.
SoftFailure(body) ==
    "success" \notin DOMAIN body \/ Trimmed(body.success) = "false"
C7_SoftFailureIsAValue ==
    [][\A t \in Tasks :
        (/\ pc[t] \in {"request_status", "retry_status",
                        "request_json", "retry_json"}
         /\ resp[t].status = 200
         /\ SoftFailure(resp[t].body)
         /\ pc'[t] # pc[t]) =>
            /\ pc[t] = "request_status" =>
                    pc'[t] = "request_json" /\ result'[t] = NoResult
            /\ pc[t] = "retry_status" =>
                    pc'[t] = "retry_json" /\ result'[t] = NoResult
            /\ pc[t] \in {"request_json", "retry_json"} =>
                /\ pc'[t] = "done"
                /\ result'[t] = Returned(
                      [type |-> "APIResponse", success |-> FALSE,
                       error_message |-> IF "error" \in DOMAIN resp[t].body
                                         THEN resp[t].body.error ELSE None])
            /\ UNCHANGED <<jsessionid, inverters, plantId, serialNum>>
      ]_vars

\* a battery call answered 200 {"success": false, "error": "no data"}
C7_Witness ==
    \E t \in Tasks :
        /\ pc[t] = "done"
        /\ call[t].op = "battery"
        /\ IsDataResponse(resp[t])
        /\ resp[t].status = 200
        /\ resp[t].body = [success |-> "false", error |-> "no data"]
        /\ result[t] = Returned([type |-> "APIResponse", success |-> FALSE,
                                 error_message |-> "no data"])

\* C8: a data call that reads a first response whose status is neither 200
\* nor 401 awaits the text of that response and then raises EG4APIError
\* carrying that status; neither of the two steps sends anything (no login,
\* no second request) or changes the cached token.
C8_OtherStatusFailsAtOnce ==
    [][\A t \in Tasks :
        (/\ pc[t] \in {"request_status", "request_text"}
         /\ resp[t].status \notin {200, 401}
         /\ pc'[t] # pc[t]) =>
            /\ pc[t] = "request_status" =>
                    pc'[t] = "request_text" /\ result'[t] = NoResult
            /\ pc[t] = "request_text" =>
                /\ pc'[t] = "done"
                /\ result'[t] = Raised("EG4APIError",
                      "API request failed: " \o ToString(resp[t].status)
                          \o " - " \o resp[t].text)
            /\ wire'[t] = wire[t]
            /\ jsessionid' = jsessionid
      ]_vars

\* a first response of 403: one data request on the wire, APIError(403)
C8_Witness ==
    \E t \in Tasks :
        /\ pc[t] = "done"
        /\ IsDataCall(call[t])
        /\ Len(DataReqs(wire[t])) = 1
        /\ LoginsAfterFirstData(wire[t]) = 0
        /\ IsDataResponse(resp[t])
        /\ resp[t].status = 403
        /\ result[t] = Raised("EG4APIError", "API request failed: 403 - Server Error")

\* C9 as claimed: set_selected_inverter without a complete pair raises
\* EG4APIError when no index is given or the index i has i < 0 or
\* i >= number of devices.
CompletePair(args) == "plantId" \in DOMAIN args /\ "serialNum" \in DOMAIN args
C9_BadIndexRaisesAPIError ==
    \A t \in Tasks :
        (/\ pc[t] = "done"
         /\ call[t].op = "select"
         /\ ~CompletePair(call[t].args)
         /\ \/ "inverterIndex" \notin DOMAIN call[t].args
            \/ call[t].args.inverterIndex < 0
            \/ call[t].args.inverterIndex >= Len(inverters)) =>
            HasRaised(result[t], "EG4APIError")

\* the devices of a login body, in response order, said position by position
RECURSIVE DevicesBefore(_, _)
DevicesBefore(plants, p) ==
    IF p <= 1 THEN 0
    ELSE DevicesBefore(plants, p - 1) + Len(Get(plants[p - 1], "inverters", <<>>))
InResponseOrder(devices, plants) ==
    /\ Len(devices) = DevicesBefore(plants, Len(plants) + 1)
    /\ \A p \in 1..Len(plants) :
        \A i \in 1..Len(Get(plants[p], "inverters", <<>>)) :
            LET d == devices[DevicesBefore(plants, p) + i]
            IN  /\ d.plantId = plants[p].plantId
                /\ d.serialNum = Dict(plants[p].inverters[i]).serialNum

\* C10: a login that returns leaves as device list the devices of its
\* response in response order; set_selected_inverter with only an index i,
\* 0 <= i < number of devices, sets the selection to the i-th device of the
\* list, and with a complete pair sets exactly that pair, whatever index
\* comes with it.
C10_SelectByIndexOrPair ==
    \A t \in Tasks : pc[t] = "done" =>
        /\ (call[t].op = "login" /\ "returned" \in DOMAIN result[t]) =>
              InResponseOrder(inverters, resp[t].body.plants)
        /\ (call[t].op = "select" /\ CompletePair(call[t].args)) =>
              /\ "returned" \in DOMAIN result[t]
              /\ plantId = call[t].args.plantId
              /\ serialNum = call[t].args.serialNum
        /\ (/\ call[t].op = "select"
            /\ ~CompletePair(call[t].args)
            /\ "inverterIndex" \in DOMAIN call[t].args
            /\ call[t].args.inverterIndex >= 0
            /\ call[t].args.inverterIndex < Len(inverters)) =>
              /\ "returned" \in DOMAIN result[t]
              /\ plantId = inverters[call[t].args.inverterIndex + 1].plantId
              /\ serialNum = inverters[call[t].args.inverterIndex + 1].serialNum

\* index 2 alone, after a login that listed SN11, SN12, SN21: the third device
C10_Witness ==
    \E t \in Tasks :
        /\ pc[t] = "done"
        /\ call[t].op = "select"
        /\ call[t].args = [inverterIndex |-> 2]
        /\ Len(inverters) = 3
        /\ inverters[2].serialNum = "SN12"
        /\ plantId = "P2"
        /\ serialNum = "SN21"

\* C11: close never fails and is idempotent: every close returns None and
\* sends nothing; on a client that never created a connection it changes
\* nothing; on a client with a connection it leaves that connection closed
\* and everything else as it was, so a close of an already closed connection
\* leaves the client exactly as the first close left it.
C11_CloseIdempotent ==
    [][\A t \in Tasks :
        (pc[t] = "idle" /\ pc'[t] = "done" /\ call'[t].op = "close") =>
            /\ result'[t] = Returned(NoneValue)
            /\ wire'[t] = <<>>
            /\ <<jsessionid, inverters, plantId, serialNum>>'
                    = <<jsessionid, inverters, plantId, serialNum>>
            /\ session = NoSession => session' = NoSession
            /\ session # NoSession =>
                    /\ session'.closed
                    /\ [session' EXCEPT !.closed = session.closed] = session
            /\ (session # NoSession /\ session.closed) => session' = session
      ]_vars

\* close has returned on a client that never created a connection
C11_Witness ==
    \E t \in Tasks :
        /\ pc[t] = "done"
        /\ call[t].op = "close"
        /\ session = NoSession
        /\ result[t] = Returned(NoneValue)

\* C12: the client constructs at most one connection resource. None exists
\* before the first login or data call; that call constructs it, and no
\* other operation does; once constructed it is never replaced, so every
\* login, data request and retry is sent through the first one constructed.
C12_OneConnection ==
    /\ session = NoSession
    /\ [][
           /\ session # NoSession =>
                /\ session' # NoSession
                /\ session'.id = session.id
                /\ session'.ssl = session.ssl
           /\ (session = NoSession /\ session' # NoSession) =>
                /\ session'.id = 1
                /\ \E t \in Tasks :
                    /\ pc[t] = "idle"
                    /\ call'[t].op \in {"login", "runtime", "energy", "battery"}
           /\ \A t \in Tasks :
                (pc[t] = "idle" /\ pc'[t] # "idle"
                    /\ call'[t].op \in {"login", "runtime", "energy", "battery"})
                    => session' # NoSession
           /\ \A t \in Tasks :
                (Len(wire'[t]) > Len(wire[t])
                    /\ wire'[t][Len(wire'[t])].kind \in {"login", "data"})
                    => (session' # NoSession /\ session'.id = 1)
         ]_vars

\* an implicit login, a data request, a re-login and a retry, all sent
\* through the one session the client constructed
C12_Witness ==
    \E t \in Tasks :
        /\ pc[t] = "retry_wait"
        /\ Len(LoginReqs(wire[t])) = 2
        /\ Len(DataReqs(wire[t])) = 2
        /\ SessionsCreated = 1

\* C13 as claimed: a battery call whose last response is a 200 with a truthy
\* "success" returns a BatteryData record whose battery_units has one
\* BatteryUnit per element of the body's batteryArray, in the same order
\* (none when the key is absent), and whose remainCapacity and fullCapacity
\* are the body's.
C13_BatteryUnitsInOrder ==
    \A t \in Tasks :
        (/\ pc[t] = "done"
         /\ call[t].op = "battery"
         /\ IsDataResponse(resp[t])
         /\ resp[t].status = 200
         /\ BodySucceeded(resp[t].body)) =>
            LET body == resp[t].body
                arr == IF "batteryArray" \in DOMAIN body
                       THEN body.batteryArray ELSE <<>>
            IN  /\ "returned" \in DOMAIN result[t]
                /\ result[t].returned.type = "BatteryData"
                /\ Len(result[t].returned.battery_units) = Len(arr)
                /\ \A i \in 1..Len(arr) :
                    /\ result[t].returned.battery_units[i].type = "BatteryUnit"
                    /\ result[t].returned.battery_units[i].fields = arr[i]
                    /\ result[t].returned.battery_units[i].captureExtra
                            = call[t].captureExtra
                /\ result[t].returned.remainCapacity
                        = Get(body, "remainCapacity", None)
                /\ result[t].returned.fullCapacity
                        = Get(body, "fullCapacity", None)

\* C14 as claimed: once a call login(ignore_ssl=True) has ended, the session
\* of the client does not verify TLS certificates, whatever came before.
C14_IgnoreSslDisablesVerification ==
    \A t \in Tasks :
        (/\ pc[t] = "done"
         /\ call[t].op = "login"
         /\ call[t].ignore_ssl
         /\ session # NoSession) =>
            ~session.ssl

\* the step in which the login of caller t, its body in, raises
LoginRaises(t) ==
    /\ pc[t] = "login_json"
    /\ pc'[t] = "done"
    /\ \/ HasRaised(result'[t], "EG4AuthError")
       \/ HasRaised(result'[t], "EG4APIError")
       \/ HasRaised(result'[t], "TypeError")
\* the step in which the login of caller t returns normally
LoginSucceeds(t) ==
    /\ pc[t] = "login_json"
    /\ pc'[t] # "login_json"
    /\ ~LoginRaises(t)

\* C15: the step in which a login succeeds, be it an explicit login, the
\* implicit login before a first data request or the re-login after a 401,
\* leaves as device list exactly the devices of that login's response, as
\* many as the response lists and in its order; no other step changes the
\* list, so the list is always that of the most recent successful login.
C15_LoginReplacesDevices ==
    [][/\ \A t \in Tasks :
            LoginSucceeds(t) =>
                /\ InResponseOrder(inverters', resp[t].body.plants)
                /\ Len(inverters')
                    = DevicesBefore(resp[t].body.plants,
                                    Len(resp[t].body.plants) + 1)
       /\ inverters' # inverters => \E t \in Tasks : LoginSucceeds(t)
      ]_vars

\* an implicit login and a re-login have both succeeded within one data
\* call, and the list holds the one device the re-login's response listed
C15_Witness ==
    \E t \in Tasks :
        /\ pc[t] = "retry_wait"
        /\ Len(LoginReqs(wire[t])) = 2
        /\ IsLoginResponse(resp[t])
        /\ DevicesBefore(resp[t].body.plants, Len(resp[t].body.plants) + 1) = 1
        /\ Len(inverters) = 1

\* the Cookie header of the data request caller u has in flight
InFlightCookie(u) == wire[u][Len(wire[u])].headers.Cookie
HasInFlight(u) == pc[u] \in {"request_wait", "retry_wait"}

\* C16: nothing protects a request in flight from a re-login: in the step in
\* which the re-login of one caller, made on a 401, caches a token other
\* than the one cached before, every data request another caller has in
\* flight stays in flight as it was sent, so that one that carried the
\* cached token now carries a token that is no longer the cached one.
C16_ReloginLeavesOthersInFlight ==
    [][\A t, u \in Tasks :
        (/\ t # u
         /\ pc[t] = "login_status"
         /\ ret[t] = "relogin"
         /\ pc'[t] = "login_json"
         /\ jsessionid' # jsessionid
         /\ HasInFlight(u)) =>
            /\ pc'[u] = pc[u]
            /\ wire'[u] = wire[u]
            /\ headers'[u] = headers[u]
            /\ InFlightCookie(u) = "JSESSIONID=" \o Str(jsessionid) =>
                    wire'[u][Len(wire'[u])].headers.Cookie
                        # "JSESSIONID=" \o Str(jsessionid')
      ]_vars

\* the race: caller t, answered 401, has re-logged in and the token of its
\* re-login is the cached one, while caller u has in flight a request that
\* carries the token t's refused request carried
C16_Witness ==
    \E t, u \in Tasks :
        /\ t # u
        /\ pc[t] = "login_json"
        /\ ret[t] = "relogin"
        /\ DataStatusLines(wire[t])[1].status = 401
        /\ resp[t].cookies.JSESSIONID = jsessionid
        /\ HasInFlight(u)
        /\ InFlightCookie(u) = DataReqs(wire[t])[1].headers.Cookie
        /\ InFlightCookie(u) # "JSESSIONID=" \o Str(jsessionid)

\* C17: on a single-flight client whose server answers every request, every
\* data call ends (it returns or raises), and it never sends more than two
\* logins nor more than two data requests, whatever the server answers.
C17_DataCallTerminates ==
    /\ [](\A t \in Tasks : IsDataCall(call[t]) =>
            /\ Len(LoginReqs(wire[t])) <= 2
            /\ Len(DataReqs(wire[t])) <= 2)
    /\ \A t \in Tasks :
            (IsDataCall(call[t]) /\ pc[t] # "done") ~> (pc[t] = "done")

\* a data call answered 401 to both its requests has ended, after an
\* implicit login, a re-login and two data requests
C17_Witness ==
    \E t \in Tasks :
        /\ pc[t] = "done"
        /\ IsDataCall(call[t])
        /\ Len(LoginReqs(wire[t])) = 2
        /\ Len(DataReqs(wire[t])) = 2
        /\ \A i \in 1..2 : DataStatusLines(wire[t])[i].status = 401
        /\ result[t] = Raised("EG4APIError", "API request failed: 401")

\* the answers on which login is refused, and those of an account without
\* devices
LoginRefused(r) ==
    \/ r.status # 200
    \/ "JSESSIONID" \notin DOMAIN r.cookies
    \/ "success" \notin DOMAIN r.body
    \/ ~IsTrue(r.body.success)
NoDevices(r) ==
    \/ "plants" \notin DOMAIN r.body
    \/ DevicesBefore(r.body.plants, Len(r.body.plants) + 1) = 0

\* C18 as claimed: a data call that ends on the answer to the re-login it
\* made on a 401 (the re-login failed) has raised EG4APIError if the answer
\* is that of an accepted login without devices and EG4AuthError otherwise,
\* and has sent its request once.
C18_FailedReloginRaises ==
    \A t \in Tasks :
        (Got401(t) /\ IsLoginResponse(resp[t])) =>
            /\ HasRaised(result[t],
                         IF ~LoginRefused(resp[t]) /\ NoDevices(resp[t])
                         THEN "EG4APIError" ELSE "EG4AuthError")
            /\ Len(DataReqs(wire[t])) = 1

\* a failed re-login never lets the request be sent again, whatever it raises
C18_NoRetryAfterFailedRelogin ==
    \A t \in Tasks :
        (Got401(t) /\ IsLoginResponse(resp[t])) =>
            /\ "raised" \in DOMAIN result[t]
            /\ Len(DataReqs(wire[t])) = 1

\* C19: the selection changes only in a step of set_selected_inverter; no
\* step of a login (the re-login on a 401 included), of a data call or of
\* close changes it, and every data request sent, a retry after a re-login
\* included, posts the serial that is selected.
C19_SelectionOnlyBySelect ==
    [][/\ <<plantId, serialNum>>' # <<plantId, serialNum>> =>
            \E t \in Tasks : pc[t] = "idle" /\ call'[t].op = "select"
       /\ \A t \in Tasks :
            (/\ Len(wire'[t]) > Len(wire[t])
             /\ wire'[t][Len(wire'[t])].kind = "data") =>
                /\ serialNum' = serialNum
                /\ wire'[t][Len(wire'[t])].data = "serialNum=" \o Str(serialNum)
      ]_vars

\* the pair P9/SN999 was selected, a data call was answered 401, its
\* re-login listed other devices, and the retry in flight posts SN999
C19_Witness ==
    \E t \in Tasks :
        /\ pc[t] = "retry_wait"
        /\ plantId = "P9"
        /\ serialNum = "SN999"
        /\ inverters # <<>>
        /\ \A i \in 1..Len(inverters) : inverters[i].serialNum # "SN999"
        /\ wire[t][Len(wire[t])].data = "serialNum=SN999"

====
